---- MODULE Spec2Model ----
(***************************************************************************)
(* Model of src/server.py (Finance MCP Server): the retry wrapper around   *)
(* the completion client (RobustOpenAIClient), the news aggregation of     *)
(* NewsService and the two price endpoints.  The server handles one call   *)
(* at a time and no call changes module-level state (client, api_key), so *)
(* a behaviour is one call from the state after module load.  Python       *)
(* strings are TLA+ strings (\o is concatenation, SubSeq a slice).          *)
(***************************************************************************)
EXTENDS Integers, Sequences, FiniteSets, TLC

VARIABLES
    client,      \* RobustOpenAIClient.client: "None" or "OpenAI"
    api_key,     \* NewsService.api_key (NEWS_API_KEY): TRUE when set
    pc,          \* "idle", "retry" (inside the for loop), "done"
    op,          \* the operation the last call ran
    attempt,     \* loop variable of chat_completion_with_retry
    calls,       \* number of client.chat.completions.create calls made
    sleeps,      \* the arguments of the time.sleep calls, in order
    outcomes,    \* what the provider did on each attempt, in order
    query,       \* get_news argument
    source,      \* get_news argument
    articles,    \* get_news local: provider results concatenated (before fallback)
    fetched,     \* what each news collaborator did: [newsapi, yahoo]
    lookup,      \* what the price provider did in stock_price / crypto_price
    result       \* what the call returned or raised

vars == <<client, api_key, pc, op, attempt, calls, sleeps, outcomes,
          query, source, articles, fetched, lookup, result>>

----------------------------------------------------------------------------
(* Bounds of the model *)

MaxQueryLen == 2     \* longest query string drawn
MaxShort == 2        \* longest provider list drawn with arbitrary (repeating) titles
MaxRaw == 6          \* longest provider list of distinct consecutive titles
MaxOff == 5          \* largest offset of such a list in the title stream

QueryAlphabet == {"a", "z"}
Messages == {"boom", "400 bad request"}      \* str(e) of a provider error
Symbols == {"aapl", "BTC", "zzz"}

----------------------------------------------------------------------------
(* Python helpers *)

Min(a, b) == IF a < b THEN a ELSE b

\* s[:n]
Take(s, n) == SubSeq(s, 1, Min(n, Len(s)))

\* sub in s, for strings
Contains(s, sub) ==
    \/ Len(sub) = 0
    \/ \E i \in 1..(Len(s) - Len(sub) + 1) : SubSeq(s, i, i + Len(sub) - 1) = sub

RECURSIVE Strings(_)
Strings(n) ==
    IF n = 0 THEN {""}
    ELSE LET p == Strings(n - 1) IN p \cup {s \o c : s \in p, c \in QueryAlphabet}

UpperChar(c) ==
    CASE c = "a" -> "A" [] c = "p" -> "P" [] c = "l" -> "L" [] c = "z" -> "Z"
      [] c = "b" -> "B" [] c = "t" -> "T" [] c = "c" -> "C"
      [] OTHER -> c

RECURSIVE Upper(_)
\* str.upper()
Upper(s) ==
    IF Len(s) = 0 THEN ""
    ELSE UpperChar(SubSeq(s, 1, 1)) \o Upper(SubSeq(s, 2, Len(s)))

\* a raised exception / a returned value
Raise(class, status, detail) ==
    [kind |-> "raise", class |-> class, status |-> status, detail |-> detail]
Return(v) == [kind |-> "return", value |-> v]
NoResult == [kind |-> "none"]

\* raise HTTPException(status, detail)
HTTPException(status, detail) == Raise("HTTPException", status, detail)

----------------------------------------------------------------------------
(* RobustOpenAIClient *)

max_retries == 3
base_delay == 1
RateLimitCooldown == 60

\* __init__: client is None when no api key is given
NewClient(key) == IF ~key THEN "None" ELSE "OpenAI"

ClientMissingNever(c) == FALSE
\* `if not self.client`
ClientMissing(c) == c = "None"

BackoffLinear(a) == base_delay * (a + 1)
BackoffConstant(a) == base_delay
\* base_delay * (2 ** attempt)
Backoff(a) == base_delay * (2 ^ a)

RateLimitSleepAsBackoff == base_delay * (2 ^ attempt)
\* time.sleep(60)
RateLimitSleep == RateLimitCooldown

IsFinalAttemptNever(a) == a = max_retries
IsFinalAttemptEarly(a) == a >= max_retries - 2
\* `if attempt == self.max_retries - 1`
IsFinalAttempt(a) == a = max_retries - 1

ConnectionErrors == {"APIConnectionError", "requests.ConnectionError"}
ErrorKinds == ConnectionErrors \cup {"RateLimitError", "Exception"}

Outcome(kind, msg) == [kind |-> kind, msg |-> msg]

\* the response object the provider returns on its n-th call
Response(n) == [id |-> n]

\* chat_completion_with_retry is called: the client check before the loop
ChatStart ==
    /\ pc = "idle"
    /\ op' = "chat"
    /\ IF ClientMissing(client)
       THEN /\ result' = HTTPException(500, "OpenAI client missing")
            /\ pc' = "done"
       ELSE /\ result' = NoResult
            /\ pc' = "retry"
    /\ UNCHANGED <<client, api_key, attempt, calls, sleeps, outcomes, query,
                   source, articles, fetched, lookup>>

InLoop == pc = "retry" /\ op = "chat" /\ attempt < max_retries

\* an attempt whose create() returns
AttemptReturns ==
    /\ InLoop
    /\ calls' = calls + 1
    /\ outcomes' = Append(outcomes, Outcome("ok", ""))
    /\ result' = Return(Response(calls + 1))
    /\ pc' = "done"
    /\ UNCHANGED <<client, api_key, op, attempt, sleeps, query, source,
                   articles, fetched, lookup>>

\* except (APIConnectionError, requests.exceptions.ConnectionError)
AttemptConnectionError ==
    /\ InLoop
    /\ \E k \in ConnectionErrors, m \in Messages :
          outcomes' = Append(outcomes, Outcome(k, m))
    /\ calls' = calls + 1
    /\ sleeps' = Append(sleeps, Backoff(attempt))
    /\ attempt' = attempt + 1
    /\ UNCHANGED <<client, api_key, pc, op, query, source, articles, fetched,
                   lookup, result>>

\* except RateLimitError
AttemptRateLimit ==
    /\ InLoop
    /\ \E m \in Messages : outcomes' = Append(outcomes, Outcome("RateLimitError", m))
    /\ calls' = calls + 1
    /\ sleeps' = Append(sleeps, RateLimitSleep)
    /\ attempt' = attempt + 1
    /\ UNCHANGED <<client, api_key, pc, op, query, source, articles, fetched,
                   lookup, result>>

\* except Exception as e
AttemptOtherError ==
    /\ InLoop
    /\ \E m \in Messages :
          /\ outcomes' = Append(outcomes, Outcome("Exception", m))
          /\ calls' = calls + 1
          /\ IF IsFinalAttempt(attempt)
             THEN /\ result' = HTTPException(500, "AI Error: " \o m)
                  /\ pc' = "done"
                  /\ UNCHANGED <<sleeps, attempt>>
             ELSE /\ sleeps' = Append(sleeps, Backoff(attempt))
                  /\ attempt' = attempt + 1
                  /\ UNCHANGED <<result, pc>>
    /\ UNCHANGED <<client, api_key, op, query, source, articles, fetched, lookup>>

\* the loop ran out: raise HTTPException(500, "Max retries exceeded")
RaiseMaxRetries ==
    /\ pc = "retry" /\ op = "chat" /\ attempt >= max_retries
    /\ result' = HTTPException(500, "Max retries exceeded")
    /\ pc' = "done"
    /\ UNCHANGED <<client, api_key, op, attempt, calls, sleeps, outcomes,
                   query, source, articles, fetched, lookup>>

----------------------------------------------------------------------------
(* NewsService *)

PerProviderLimit == 5        \* articles[:5], raw_news[:5]
MaxReturned == 8             \* unique_articles[:8]

Sources == {"all", "newsapi", "yahoo", "alphavantage"}
Queries == Strings(MaxQueryLen)

\* Provider data.  A raw item is [title, url]; title Absent is an item without
\* a title key.  The lists drawn: every list of at most MaxShort items over
\* two titles and the absent title, and the runs of distinct consecutive titles.
Absent == "<absent>"
Title(i) == "T" \o ToString(i)
RawTitles == {Title(1), Title(2), Absent}
RawItems(titles) ==
    [i \in 1..Len(titles) |-> [title |-> titles[i], url |-> "u" \o ToString(i)]]
ShortLists == UNION {[1..n -> RawTitles] : n \in 0..MaxShort}
Runs == {[i \in 1..n |-> Title(off + i)] : off \in 0..MaxOff, n \in 1..MaxRaw}
RawLists == {RawItems(t) : t \in ShortLists \cup Runs}

\* requests.get(...) of get_newsapi_news, and yf.Ticker(...).news
NewsApiResponses ==
    {[kind |-> "exception", status |-> 0, items |-> <<>>],
     [kind |-> "http", status |-> 401, items |-> <<>>]}
    \cup {[kind |-> "http", status |-> 200, items |-> l] : l \in RawLists}
YahooResponses ==
    {[kind |-> "exception", items |-> <<>>]}
    \cup {[kind |-> "news", items |-> l] : l \in RawLists}

\* dict.get(key, default) on a raw item's title
GetTitle(item, default) == IF item.title = Absent THEN default ELSE item.title

Article(title, url, src, published, provider) ==
    [title |-> title, url |-> url, source |-> src, publishedAt |-> published,
     provider |-> provider]

get_newsapi_news(key, resp) ==
    IF ~key THEN <<>>
    ELSE IF resp.kind = "exception" THEN <<>>
    ELSE IF resp.status = 200
         THEN LET shown == Take(resp.items, PerProviderLimit) IN
              [i \in 1..Len(shown) |->
                  Article(GetTitle(shown[i], "No title"), shown[i].url,
                          "Unknown", "now", "newsapi")]
         ELSE <<>>

get_yahoo_finance_news(resp) ==
    IF resp.kind = "exception" THEN <<>>
    ELSE IF Len(resp.items) = 0 THEN <<>>
    ELSE LET shown == Take(resp.items, PerProviderLimit) IN
         [i \in 1..Len(shown) |->
             Article(GetTitle(shown[i], "No title"), shown[i].url,
                     "Yahoo Finance", "now", "yahoo")]

get_fallback_news_generic(q) ==
    << Article("Latest market trends", "#", "Financial Times", "now", "fallback"),
       Article("Investment opportunities", "#", "Bloomberg", "now", "fallback"),
       Article("Global market analysis and outlook", "#", "Reuters", "now", "fallback") >>
get_fallback_news(q) ==
    << Article("Latest market trends for " \o q, "#", "Financial Times", "now",
               "fallback"),
       Article("Investment opportunities in " \o q \o " sector", "#", "Bloomberg",
               "now", "fallback"),
       Article("Global market analysis and outlook", "#", "Reuters", "now",
               "fallback") >>

RECURSIVE DedupLoop(_, _, _, _)
\* the `for article in articles` loop with unique_articles and seen_titles
DedupLoop(arts, i, unique_articles, seen_titles) ==
    IF i > Len(arts) THEN unique_articles
    ELSE IF arts[i].title \notin seen_titles
         THEN DedupLoop(arts, i + 1, Append(unique_articles, arts[i]),
                        seen_titles \cup {arts[i].title})
         ELSE DedupLoop(arts, i + 1, unique_articles, seen_titles)

RECURSIVE DedupKeepLastLoop(_, _, _)
DedupKeepLastLoop(arts, i, kept) ==
    IF i > Len(arts) THEN kept
    ELSE DedupKeepLastLoop(arts, i + 1,
            Append(SelectSeq(kept, LAMBDA a : a.title # arts[i].title), arts[i]))

RemoveDuplicatesKeepLast(arts) == DedupKeepLastLoop(arts, 1, <<>>)
\* "Remove duplicates based on title"
RemoveDuplicates(arts) == DedupLoop(arts, 1, <<>>, {})

TruncateNone(unique_articles) == unique_articles
\* unique_articles[:8]
Truncate(unique_articles) == Take(unique_articles, MaxReturned)

\* `if not articles: articles = self.get_fallback_news(query)`
OrFallback(arts, q) == IF Len(arts) = 0 THEN get_fallback_news(q) ELSE arts

ConsultsNewsApi(s) == s \in {"all", "newsapi"}
ConsultsYahoo(s) == s \in {"all", "yahoo"}

NewsApiStatus(key, resp) ==
    IF ~key THEN "no_key"
    ELSE IF resp.kind = "exception" THEN "exception"
    ELSE IF resp.status # 200 THEN "http_error"
    ELSE IF Len(resp.items) = 0 THEN "empty" ELSE "ok"
YahooStatus(resp) ==
    IF resp.kind = "exception" THEN "exception"
    ELSE IF Len(resp.items) = 0 THEN "empty" ELSE "ok"

\* get_news(query, source)
GetNews ==
    /\ pc = "idle"
    /\ \E q \in Queries, s \in Sources :
        \E nresp \in (IF ConsultsNewsApi(s) /\ api_key THEN NewsApiResponses
                      ELSE {[kind |-> "exception", status |-> 0, items |-> <<>>]}),
           yresp \in (IF ConsultsYahoo(s) THEN YahooResponses
                      ELSE {[kind |-> "exception", items |-> <<>>]}) :
          LET newsapi_articles ==
                  IF ConsultsNewsApi(s) THEN get_newsapi_news(api_key, nresp) ELSE <<>>
              yahoo_articles ==
                  IF ConsultsYahoo(s) THEN get_yahoo_finance_news(yresp) ELSE <<>>
              all_articles == newsapi_articles \o yahoo_articles
          IN /\ query' = q
             /\ source' = s
             /\ articles' = all_articles
             /\ fetched' =
                  [newsapi |-> IF ConsultsNewsApi(s) THEN NewsApiStatus(api_key, nresp)
                               ELSE "skipped",
                   yahoo |-> IF ConsultsYahoo(s) THEN YahooStatus(yresp)
                             ELSE "skipped"]
             /\ result' = Return(Truncate(RemoveDuplicates(OrFallback(all_articles, q))))
    /\ op' = "news"
    /\ pc' = "done"
    /\ UNCHANGED <<client, api_key, attempt, calls, sleeps, outcomes, lookup>>

----------------------------------------------------------------------------
(* Price endpoints *)

\* str(e) of the exceptions the handlers format
Str(e) == IF e.class = "HTTPException" THEN ToString(e.status) \o ": " \o e.detail
          ELSE e.detail

\* every exception class raised here derives from Exception
ExceptionClasses == {"HTTPException", "ConnectionError", "ValueError", "JSONDecodeError"}

\* try: <body> except Exception as e: raise HTTPException(500, prefix + str(e))
ExceptException(body, prefix) ==
    IF body.kind = "raise" /\ body.class \in ExceptionClasses
    THEN HTTPException(500, prefix \o Str(body))
    ELSE body

StockLookups == {"history", "empty", "error"}
CryptoLookups == {"price", "no_price", "bad_price", "error"}

\* the body of the try block of stock_price
stock_price_body(symbol, found) ==
    CASE found = "error" -> Raise("ConnectionError", 0, "connection failed")
      [] found = "empty" -> HTTPException(400, "Invalid stock symbol")
      [] OTHER -> Return([symbol |-> Upper(symbol), price |-> 100])

\* the body of the try block of crypto_price
crypto_price_body(symbol, found) ==
    CASE found = "error" -> Raise("JSONDecodeError", 0, "Expecting value")
      [] found = "no_price" -> HTTPException(400, "Invalid crypto symbol")
      [] found = "bad_price" -> Raise("ValueError", 0, "could not convert string to float")
      [] OTHER -> Return([symbol |-> Upper(symbol), price |-> 100])

StockPrice ==
    /\ pc = "idle"
    /\ \E sym \in Symbols, found \in StockLookups :
          /\ lookup' = found
          /\ result' = ExceptException(stock_price_body(sym, found),
                                       "Stock price error: ")
    /\ op' = "stock"
    /\ pc' = "done"
    /\ UNCHANGED <<client, api_key, attempt, calls, sleeps, outcomes, query,
                   source, articles, fetched>>

CryptoPrice ==
    /\ pc = "idle"
    /\ \E sym \in Symbols, found \in CryptoLookups :
          /\ lookup' = found
          /\ result' = ExceptException(crypto_price_body(sym, found), "Crypto error: ")
    /\ op' = "crypto"
    /\ pc' = "done"
    /\ UNCHANGED <<client, api_key, attempt, calls, sleeps, outcomes, query,
                   source, articles, fetched>>

----------------------------------------------------------------------------

Init ==
    /\ client \in {NewClient(k) : k \in BOOLEAN}
    /\ api_key \in BOOLEAN
    /\ pc = "idle"
    /\ op = "none"
    /\ attempt = 0
    /\ calls = 0
    /\ sleeps = <<>>
    /\ outcomes = <<>>
    /\ query = ""
    /\ source = ""
    /\ articles = <<>>
    /\ fetched = [newsapi |-> "skipped", yahoo |-> "skipped"]
    /\ lookup = "none"
    /\ result = NoResult

Next ==
    \/ ChatStart
    \/ AttemptReturns
    \/ AttemptConnectionError
    \/ AttemptRateLimit
    \/ AttemptOtherError
    \/ RaiseMaxRetries
    \/ GetNews
    \/ StockPrice
    \/ CryptoPrice

Spec == Init /\ [][Next]_vars

----------------------------------------------------------------------------
(* Properties *)

NewsDone == pc = "done" /\ op = "news"
ChatDone == pc = "done" /\ op = "chat"
PriceDone == pc = "done" /\ op \in {"stock", "crypto"}

\* every consulted news collaborator failed or returned nothing
NoProviderArticles ==
    /\ fetched.newsapi \in {"skipped", "no_key", "exception", "http_error", "empty"}
    /\ fetched.yahoo \in {"skipped", "exception", "empty"}

AllFallback(r) == \A i \in 1..Len(r) : r[i].provider = "fallback"

\* C1 as stated: when every consulted provider fails or returns nothing,
\* get_news returns exactly 3 articles tagged fallback and every one of the 3
\* titles contains the query.
C1_AllTitlesContainQuery ==
    (NewsDone /\ NoProviderArticles) =>
        LET r == result.value IN
        /\ Len(r) = 3
        /\ AllFallback(r)
        /\ \A i \in 1..Len(r) : Contains(r[i].title, query)

\* C1 amended: when every consulted provider fails or returns nothing,
\* get_news returns exactly 3 articles tagged fallback; the first two titles
\* contain the query and the third is the fixed title "Global market analysis
\* and outlook".
C1_FallbackTitles ==
    (NewsDone /\ NoProviderArticles) =>
        LET r == result.value IN
        /\ Len(r) = 3
        /\ AllFallback(r)
        /\ Contains(r[1].title, query)
        /\ Contains(r[2].title, query)
        /\ r[3].title = "Global market analysis and outlook"

C1_Witness ==
    /\ NewsDone
    /\ source = "all"
    /\ fetched = [newsapi |-> "exception", yahoo |-> "empty"]
    /\ query = "az"
    /\ Len(result.value) = 3

NoTwoSameTitle(r) ==
    \A i, j \in 1..Len(r) : i # j => r[i].title # r[j].title

\* k is the first place of its title in seq
IsFirstOccurrence(seq, k) ==
    \A j \in 1..(k - 1) : seq[j].title # seq[k].title

\* C2: the returned list holds no two articles with the same title; its
\* articles are the first occurrences of their titles in the concatenation
\* NewsAPI results then Yahoo results, in that order, so a title both
\* providers returned is kept as its NewsAPI article.
C2_StableDedup ==
    NewsDone =>
        LET r == result.value IN
        /\ NoTwoSameTitle(r)
        /\ Len(articles) > 0 =>
             /\ \A i \in 1..Len(r) :
                   \E k \in 1..Len(articles) :
                      /\ articles[k] = r[i]
                      /\ IsFirstOccurrence(articles, k)
             /\ \A i, j \in 1..Len(r) :
                   i < j =>
                     \E k, l \in 1..Len(articles) :
                        /\ k < l
                        /\ articles[k].title = r[i].title
                        /\ articles[l].title = r[j].title
                        /\ IsFirstOccurrence(articles, k)
                        /\ IsFirstOccurrence(articles, l)
             /\ \A i \in 1..Len(r) :
                   r[i].provider = "yahoo" =>
                     \A k \in 1..Len(articles) :
                        articles[k].provider = "newsapi"
                            => articles[k].title # r[i].title

C2_Witness ==
    /\ NewsDone
    /\ source = "all"
    /\ \E i, j, k \in 1..Len(articles) :
          /\ i < j /\ j < k
          /\ articles[i].provider = "newsapi"
          /\ articles[j].provider = "newsapi"
          /\ articles[k].provider = "yahoo"
          /\ articles[i].title = articles[j].title
          /\ articles[j].title = articles[k].title
    /\ Len(result.value) < Len(articles)

\* C3: for every query, source filter and provider outcome get_news returns
\* at least 1 and at most 8 articles.
C3_BetweenOneAndEight ==
    NewsDone => (Len(result.value) >= 1 /\ Len(result.value) <= 8)

C3_Witness ==
    /\ NewsDone
    /\ Cardinality({articles[i].title : i \in 1..Len(articles)}) > 8
    /\ Len(result.value) = 8

Kinds(os) == [i \in 1..Len(os) |-> os[i].kind]

\* C4: connection errors on all 3 attempts end in "Max retries exceeded"
\* after the sleeps base_delay*1, base_delay*2, base_delay*4, base_delay = 1.
C4_ConnectionBackoff ==
    (ChatDone /\ Len(outcomes) = 3
        /\ \A i \in 1..3 : outcomes[i].kind \in ConnectionErrors) =>
        /\ result = HTTPException(500, "Max retries exceeded")
        /\ base_delay = 1
        /\ sleeps = <<base_delay * 1, base_delay * 2, base_delay * 4>>

C4_Witness ==
    /\ ChatDone
    /\ Kinds(outcomes) = <<"APIConnectionError", "requests.ConnectionError",
                          "APIConnectionError">>
    /\ result.kind = "raise"
    /\ Len(sleeps) = 3

\* C5: rate-limit errors on the first two attempts and success on the third
\* return the third response after exactly 2 sleeps of 60 seconds and exactly
\* 3 provider calls.
C5_RateLimitCooldown ==
    (ChatDone /\ Kinds(outcomes) = <<"RateLimitError", "RateLimitError", "ok">>) =>
        /\ result = Return(Response(3))
        /\ sleeps = <<60, 60>>
        /\ calls = 3

C5_Witness ==
    /\ ChatDone
    /\ Kinds(outcomes) = <<"RateLimitError", "RateLimitError", "ok">>
    /\ result.kind = "return"

\* the details of the errors the retry loop raises
RuntimeErrorDetails ==
    {"Max retries exceeded"} \cup {"AI Error: " \o m : m \in Messages}

\* C6: without a credential a call fails at once with an error whose detail
\* differs from every runtime error's, after zero provider calls and zero sleeps.
C6_MissingCredential ==
    (client = NewClient(FALSE) /\ op = "chat") =>
        /\ pc = "done"
        /\ result.kind = "raise"
        /\ result.detail = "OpenAI client missing"
        /\ result.detail \notin RuntimeErrorDetails
        /\ calls = 0
        /\ sleeps = <<>>
        /\ outcomes = <<>>

C6_Witness ==
    /\ ChatDone
    /\ client = "None"
    /\ result.kind = "raise"

ThreeFailures ==
    /\ ChatDone
    /\ Len(outcomes) = 3
    /\ \A i \in 1..3 : outcomes[i].kind \in ErrorKinds

\* C7 as stated: every sequence of 3 failing attempts ends in the terminal
\* "Max retries exceeded" error.
C7_AlwaysMaxRetries ==
    ThreeFailures => result = HTTPException(500, "Max retries exceeded")

\* C7 amended: 3 failing attempts end in "Max retries exceeded" when the third
\* failure is a connection or rate-limit error, and in "AI Error: <message>"
\* when the third failure is any other provider error.
C7_TerminalError ==
    ThreeFailures =>
        IF outcomes[3].kind = "Exception"
        THEN result = HTTPException(500, "AI Error: " \o outcomes[3].msg)
        ELSE result = HTTPException(500, "Max retries exceeded")

C7_Witness ==
    /\ ThreeFailures
    /\ Kinds(outcomes) = <<"Exception", "RateLimitError", "APIConnectionError">>
    /\ result.detail = "Max retries exceeded"

\* C8: with a credential, an error is raised only after exactly 3 provider
\* calls, at most 3 calls are ever made, and a success returns that attempt's
\* response with no later call or sleep.
C8_FailsOnlyAfterThreeCalls ==
    (client = "OpenAI" /\ op = "chat") =>
        /\ calls <= 3
        /\ calls = Len(outcomes)
        /\ (pc = "done" /\ result.kind = "raise") => calls = 3
        /\ (pc = "done" /\ result.kind = "return") =>
              /\ outcomes[calls].kind = "ok"
              /\ \A i \in 1..(calls - 1) : outcomes[i].kind # "ok"
              /\ result.value = Response(calls)
              /\ Len(sleeps) = calls - 1
        /\ (\E i \in 1..Len(outcomes) : outcomes[i].kind = "ok") =>
              (pc = "done" /\ result.kind = "return")

C8_Witness ==
    /\ ChatDone
    /\ client = "OpenAI"
    /\ Kinds(outcomes) = <<"Exception", "ok">>
    /\ result = Return(Response(2))

\* C9: in stock_price and crypto_price an unknown symbol (empty history, no
\* price in the response) is answered with status 400 and any other failure
\* of the lookup with status 500.
C9_InvalidSymbolIs400 ==
    PriceDone =>
        /\ lookup \in {"empty", "no_price"} =>
              (result.kind = "raise" /\ result.status = 400)
        /\ lookup \in {"error", "bad_price"} =>
              (result.kind = "raise" /\ result.status = 500)

\* C10: an attempt failing with another provider error raises "AI Error:
\* <message>" at once and without sleeping when it is attempt 2, and on
\* attempt 0 or 1 sleeps base_delay * 2^attempt and goes on to the next attempt.
C10_OtherError ==
    op = "chat" =>
        \A i \in 1..Len(outcomes) :
            outcomes[i].kind = "Exception" =>
                IF i - 1 = 2
                THEN /\ pc = "done"
                     /\ result = HTTPException(500, "AI Error: " \o outcomes[i].msg)
                     /\ Len(sleeps) = 2
                     /\ calls = 3
                ELSE /\ Len(sleeps) >= i
                     /\ sleeps[i] = base_delay * (2 ^ (i - 1))
                     /\ attempt >= i
                     /\ calls = i => (pc = "retry" /\ attempt = i)

C10_Witness ==
    /\ ChatDone
    /\ Kinds(outcomes) = <<"Exception", "Exception", "Exception">>
    /\ sleeps = <<1, 2>>
    /\ result.detail = "AI Error: boom"

====
